---- MODULE Spec2Model ----
(***************************************************************************)
(* SAT encodings of graph 3-colouring (TP2/main.py) and of 9x9 Sudoku      *)
(* (TP3/main.py): variable numbering, clause generation, DIMACS            *)
(* serialisation, model decoding and the solver gateway.                   *)
(*                                                                         *)
(* Text is a sequence of one-character strings, a Python list is a TLA+    *)
(* sequence (index n of Python is index n+1 here): cell grid[i][j] of a     *)
(* Python grid is g[i + 1][j + 1] here.                                    *)
(***************************************************************************)
EXTENDS Integers, Sequences, FiniteSets, TLC

VARIABLES
    pc,          \* position of the running program
    ix_in,       \* VariableIndexer: the atom or variable handed in
    ix_out,      \* VariableIndexer: what came back
    heap,        \* Python list objects of the unique() caller: id -> list
    s_ref,       \* id of the caller's list S
    s_orig,      \* content of S when unique() was called
    u_result,    \* the ClauseBase unique() returned: a list of object ids
    u_assign,    \* a truth assignment: the set of true variables
    d_clauses,   \* clause_to_dimacs: argument clauses
    d_nb_vars,   \* clause_to_dimacs: argument nb_vars
    d_text,      \* clause_to_dimacs: returned string
    graph,       \* generate_dimacs_cnf: [n |-> |V|, edges |-> list of <<u, v>>]
    coloring,    \* a truth assignment over the colouring variables
    cnf_file,    \* content of graph.cnf
    grid,        \* solve_sudoku: argument grid
    model,       \* the model the solver has at hand for the instance
    cnf_header,  \* header of sudoku.cnf: <<nb_vars, nb_clauses>>
    solver,      \* what running the solver did
    result,      \* value returned by solve_sudoku
    printed      \* messages printed by solve_sudoku and main

vars == <<pc, ix_in, ix_out, heap, s_ref, s_orig, u_result, u_assign,
          d_clauses, d_nb_vars, d_text, graph, coloring, cnf_file,
          grid, model, cnf_header, solver, result, printed>>

ixVars == <<ix_in, ix_out>>
uVars == <<heap, s_ref, s_orig, u_result, u_assign>>
dVars == <<d_clauses, d_nb_vars, d_text>>
gVars == <<graph, coloring, cnf_file>>
sVars == <<grid, model, cnf_header, solver, result, printed>>

None == "None"

---------------------------------------------------------------------------
(* Bounds of the explored inputs *)

MaxVar == 4         \* unique(): variables are drawn from 1..MaxVar
MaxClauses == 2     \* clause_to_dimacs: at most this many clauses
MaxClauseLen == 2   \* clause_to_dimacs: at most this many literals per clause
MaxLit == 3         \* clause_to_dimacs: literals are in -MaxLit..MaxLit
MaxNbVars == 3      \* clause_to_dimacs: nb_vars is in 0..MaxNbVars

---------------------------------------------------------------------------
(* Generic helpers of the Python runtime *)

Range(s) == {s[n] : n \in 1..Len(s)}

RECURSIVE Flatten(_)
\* list.extend over a list of lists / str.join with an empty separator
Flatten(ss) ==
    IF Len(ss) = 0 THEN <<>>
    ELSE IF Len(ss) = 1 THEN ss[1]
    ELSE LET h == Len(ss) \div 2
         IN  Flatten(SubSeq(ss, 1, h)) \o Flatten(SubSeq(ss, h + 1, Len(ss)))

Digits == <<"0", "1", "2", "3", "4", "5", "6", "7", "8", "9">>

RECURSIVE NatStr(_)
NatStr(n) == IF n < 10 THEN <<Digits[n + 1]>>
             ELSE NatStr(n \div 10) \o <<Digits[(n % 10) + 1]>>

\* str(int): decimal digits, a leading "-" for a negative number
str(n) == IF n < 0 THEN <<"-">> \o NatStr(-n) ELSE NatStr(n)

RECURSIVE join(_, _)
\* sep.join(items)
join(sep, items) ==
    IF Len(items) = 0 THEN <<>>
    ELSE IF Len(items) = 1 THEN items[1]
    ELSE LET h == Len(items) \div 2
         IN  join(sep, SubSeq(items, 1, h)) \o sep
             \o join(sep, SubSeq(items, h + 1, Len(items)))

\* itertools.combinations(range(n), 2) as index pairs, in itertools' order
CombinationIndexes(n) ==
    Flatten([a \in 1..n |-> [d \in 1..(n - a) |-> <<a, a + d>>]])

\* itertools.combinations(xs, 2)
combinations2(xs) ==
    LET ix == CombinationIndexes(Len(xs))
    IN  [p \in 1..Len(ix) |-> <<xs[ix[p][1]], xs[ix[p][2]]>>]

\* A clause (list of literals) is true under the set of true variables
ClauseTrue(trueVars, clause) ==
    \E n \in 1..Len(clause) :
        IF clause[n] > 0 THEN clause[n] \in trueVars ELSE (-clause[n]) \notin trueVars

SatisfiesAll(trueVars, clauses) ==
    \A n \in 1..Len(clauses) : ClauseTrue(trueVars, clauses[n])

---------------------------------------------------------------------------
(* TP3: VariableIndexer *)

cell_to_variable(i, j, val) == i * 81 + j * 9 + (val - 1) + 1

variable_to_cell(var) ==
    LET i == (var - 1) \div (9 * 9)
        j == ((var - 1) \div 9) % 9
        val == (var - 1) % 9
    IN  <<i, j, val>>

IdleIx == ix_in = None /\ ix_out = None

IdleColoring == graph = None /\ coloring = None /\ cnf_file = None

InitIndexer ==
    /\ \/ \E i \in 0..8, j \in 0..8, k \in 1..9 : ix_in = [cell |-> <<i, j, k>>]
       \/ \E v \in 1..729 : ix_in = [var |-> v]
    /\ ix_out = None

\* variable_to_cell(cell_to_variable(i, j, k))
encode_decode ==
    /\ pc = "start"
    /\ "cell" \in DOMAIN ix_in
    /\ ix_out' = [cell |-> variable_to_cell(
                      cell_to_variable(ix_in.cell[1], ix_in.cell[2], ix_in.cell[3]))]
    /\ pc' = "done"
    /\ UNCHANGED <<ix_in, uVars, dVars, gVars, sVars>>

\* cell_to_variable(*variable_to_cell(v))
decode_encode ==
    /\ pc = "start"
    /\ "var" \in DOMAIN ix_in
    /\ LET c == variable_to_cell(ix_in.var)
       IN  ix_out' = [var |-> cell_to_variable(c[1], c[2], c[3])]
    /\ pc' = "done"
    /\ UNCHANGED <<ix_in, uVars, dVars, gVars, sVars>>

---------------------------------------------------------------------------
(* TP3: DimacsWriter *)

\* f"p cnf {nb_vars} {nb_clauses}\n"
dimacs_header(nb_vars, nb_clauses) ==
    <<"p", " ", "c", "n", "f", " ">> \o str(nb_vars) \o <<" ">>
    \o str(nb_clauses) \o <<"\n">>

clause_to_dimacs(clauses, nb_vars) ==
    LET nb_clauses == Len(clauses)
        header == dimacs_header(nb_vars, nb_clauses)
        clauses_lines ==
            [n \in 1..Len(clauses) |->
                join(<<" ">>, [l \in 1..Len(clauses[n]) |-> str(clauses[n][l])])
                \o <<" ", "0">>]
    IN  header \o join(<<"\n">>, clauses_lines) \o <<"\n">>

Literals == (-MaxLit..MaxLit) \ {0}

SeqsUpTo(S, lo, hi) == UNION {[1..n -> S] : n \in lo..hi}

IdleDimacs == d_clauses = None /\ d_nb_vars = None /\ d_text = None

InitDimacs ==
    /\ d_clauses \in SeqsUpTo(SeqsUpTo(Literals, 1, MaxClauseLen), 0, MaxClauses)
    /\ d_nb_vars \in 0..MaxNbVars
    /\ d_text = None

call_clause_to_dimacs ==
    /\ pc = "start"
    /\ d_text' = clause_to_dimacs(d_clauses, d_nb_vars)
    /\ pc' = "done"
    /\ UNCHANGED <<d_clauses, d_nb_vars, ixVars, uVars, gVars, sVars>>

---------------------------------------------------------------------------
(* TP3: the exactly-one primitive.  Lists are objects of a heap (id -> list) *)
(* so that a copy and an alias are different things.                       *)

NewId(h) == Cardinality(DOMAIN h) + 1

Alloc(h, content) == [heap |-> h @@ (NewId(h) :> content), ref |-> NewId(h)]

\* return variables: the caller's own list, not a copy
at_least_one_alias(h, variables) == [heap |-> h, ref |-> variables]

\* variables.copy(): a new list object with the same elements
at_least_one(h, variables) == Alloc(h, h[variables])

\* clauses.append([...]) once per element of `contents`, in order: each
\* appended list is a new object
AllocAll(h, refs, contents) ==
    LET base == Cardinality(DOMAIN h)
    IN  [heap |-> h @@ [id \in (base + 1)..(base + Len(contents)) |-> contents[id - base]],
         refs |-> refs \o [n \in 1..Len(contents) |-> base + n]]

unique(h, variables) ==
    LET first == at_least_one(h, variables)
        pairs == combinations2(h[variables])
    IN  AllocAll(first.heap, <<first.ref>>,
                 [p \in 1..Len(pairs) |-> <<-pairs[p][1], -pairs[p][2]>>])

\* The clause base behind a list of object ids
Deref(h, refs) == [n \in 1..Len(refs) |-> h[refs[n]]]

IdleUnique ==
    /\ heap = None /\ s_ref = None /\ s_orig = None
    /\ u_result = None /\ u_assign = None

\* Lists of distinct variables of 1..MaxVar, of length 1..MaxVar
DistinctLists ==
    {s \in SeqsUpTo(1..MaxVar, 1, MaxVar) :
        \A a, b \in 1..Len(s) : a # b => s[a] # s[b]}

InitUnique ==
    /\ \E s \in DistinctLists :
          /\ heap = (1 :> s)
          /\ s_orig = s
    /\ s_ref = 1
    /\ u_result = None
    /\ u_assign \in SUBSET (1..MaxVar)

call_unique ==
    /\ pc = "start"
    /\ LET r == unique(heap, s_ref)
       IN  /\ heap' = r.heap
           /\ u_result' = r.refs
    /\ pc' = "returned"
    /\ UNCHANGED <<s_ref, s_orig, u_assign, ixVars, dVars, gVars, sVars>>

\* The caller appends a literal to the first clause it was given
caller_appends ==
    /\ pc = "returned"
    /\ \E lit \in {-1, 1} :
          heap' = [heap EXCEPT ![u_result[1]] = Append(@, lit)]
    /\ pc' = "mutated"
    /\ UNCHANGED <<s_ref, s_orig, u_result, u_assign, ixVars, dVars, gVars, sVars>>

\* unique() on a list of the caller's, as a clause base (list of lists)
unique_of(xs) == LET r == unique((1 :> xs), 1) IN Deref(r.heap, r.refs)

---------------------------------------------------------------------------
(* TP3: ConstraintBuilder for Sudoku *)

create_cell_constraints ==
    Flatten([n \in 1..81 |->
        LET i == (n - 1) \div 9
            j == (n - 1) % 9
            cell_vars == [k \in 1..9 |-> cell_to_variable(i, j, k)]
        IN  unique_of(cell_vars)])

\* range(1, 9) for range(1, 10): digit 9 gets no row constraint
create_line_constraints_short ==
    Flatten([n \in 1..72 |->
        LET i == (n - 1) \div 8
            k == ((n - 1) % 8) + 1
            ligne_var == [c \in 1..9 |-> cell_to_variable(i, c - 1, k)]
        IN  unique_of(ligne_var)])

create_line_constraints ==
    Flatten([n \in 1..81 |->
        LET i == (n - 1) \div 9
            k == ((n - 1) % 9) + 1
            ligne_var == [c \in 1..9 |-> cell_to_variable(i, c - 1, k)]
        IN  unique_of(ligne_var)])

create_column_constraints ==
    Flatten([n \in 1..81 |->
        LET j == (n - 1) \div 9
            k == ((n - 1) % 9) + 1
            colonne_var == [r \in 1..9 |-> cell_to_variable(r - 1, j, k)]
        IN  unique_of(colonne_var)])

\* col computed from i instead of j
create_box_constraints_diag ==
    Flatten([n \in 1..81 |->
        LET box_row == (n - 1) \div 27
            box_columns == ((n - 1) \div 9) % 3
            k == ((n - 1) % 9) + 1
            box_vars == [c \in 1..9 |->
                LET i == (c - 1) \div 3
                    j == (c - 1) % 3
                    row == box_row * 3 + i
                    col == box_columns * 3 + i
                IN  cell_to_variable(row, col, k)]
        IN  unique_of(box_vars)])

create_box_constraints ==
    Flatten([n \in 1..81 |->
        LET box_row == (n - 1) \div 27
            box_columns == ((n - 1) \div 9) % 3
            k == ((n - 1) % 9) + 1
            box_vars == [c \in 1..9 |->
                LET i == (c - 1) \div 3
                    j == (c - 1) % 3
                    row == box_row * 3 + i
                    col == box_columns * 3 + j
                IN  cell_to_variable(row, col, k)]
        IN  unique_of(box_vars)])

\* the unit clause built with row and column exchanged
create_value_constraints_transposed(g) ==
    Flatten([n \in 1..81 |->
        LET i == (n - 1) \div 9
            j == (n - 1) % 9
        IN  IF g[i + 1][j + 1] # 0
            THEN LET k == g[i + 1][j + 1] IN <<<<cell_to_variable(j, i, k)>>>>
            ELSE <<>>])

\* range(8) for range(9) in the inner loop: the last column is never read
create_value_constraints_short(g) ==
    Flatten([n \in 1..72 |->
        LET i == (n - 1) \div 8
            j == (n - 1) % 8
        IN  IF g[i + 1][j + 1] # 0
            THEN LET k == g[i + 1][j + 1] IN <<<<cell_to_variable(i, j, k)>>>>
            ELSE <<>>])

create_value_constraints(g) ==
    Flatten([n \in 1..81 |->
        LET i == (n - 1) \div 9
            j == (n - 1) % 9
        IN  IF g[i + 1][j + 1] # 0
            THEN LET k == g[i + 1][j + 1] IN <<<<cell_to_variable(i, j, k)>>>>
            ELSE <<>>])

generate_problem(g) ==
    create_cell_constraints
    \o create_line_constraints
    \o create_column_constraints
    \o create_box_constraints
    \o create_value_constraints(g)

---------------------------------------------------------------------------
(* TP3: ModelDecoder *)

\* What the loop of model_to_grid leaves in cell (i, j): the value of the
\* last positive literal of the model that decodes to the cell, 0 (the
\* initial content) when there is none
model_to_grid_cell(m, positive, i, j) ==
    LET hits == {n \in positive :
                    /\ variable_to_cell(m[n])[1] = i
                    /\ variable_to_cell(m[n])[2] = j}
    IN  IF hits = {} THEN 0
        ELSE LET last == CHOOSE n \in hits : \A o \in hits : o <= n
                 val == variable_to_cell(m[last])[3]
             IN  val + 1

model_to_grid_row(m, positive, i) ==
    <<model_to_grid_cell(m, positive, i, 0), model_to_grid_cell(m, positive, i, 1),
      model_to_grid_cell(m, positive, i, 2), model_to_grid_cell(m, positive, i, 3),
      model_to_grid_cell(m, positive, i, 4), model_to_grid_cell(m, positive, i, 5),
      model_to_grid_cell(m, positive, i, 6), model_to_grid_cell(m, positive, i, 7),
      model_to_grid_cell(m, positive, i, 8)>>

model_to_grid(m) ==
    LET positive == {n \in 1..Len(m) : m[n] > 0}
    IN  <<model_to_grid_row(m, positive, 0), model_to_grid_row(m, positive, 1),
          model_to_grid_row(m, positive, 2), model_to_grid_row(m, positive, 3),
          model_to_grid_row(m, positive, 4), model_to_grid_row(m, positive, 5),
          model_to_grid_row(m, positive, 6), model_to_grid_row(m, positive, 7),
          model_to_grid_row(m, positive, 8)>>

\* The variables a model (list of signed literals) makes true
TrueVars(m) == {m[n] : n \in {x \in 1..Len(m) : m[x] > 0}}

---------------------------------------------------------------------------
(* TP3: the grids of the module and the explored inputs *)

example == <<
    <<5, 3, 5, 0, 7, 0, 0, 0, 0>>,
    <<6, 0, 0, 1, 9, 5, 0, 0, 0>>,
    <<0, 9, 8, 0, 0, 0, 0, 6, 0>>,
    <<8, 0, 0, 0, 6, 0, 0, 0, 3>>,
    <<4, 0, 0, 8, 0, 3, 0, 0, 1>>,
    <<7, 0, 0, 0, 2, 0, 0, 0, 6>>,
    <<0, 6, 0, 0, 0, 0, 2, 8, 0>>,
    <<0, 0, 0, 4, 1, 9, 0, 0, 5>>,
    <<0, 0, 0, 0, 8, 0, 0, 7, 9>> >>

example2 == <<
    <<0, 0, 0, 0, 0, 0, 0, 0, 0>>,
    <<0, 0, 0, 0, 0, 0, 0, 0, 0>>,
    <<0, 0, 0, 0, 0, 0, 0, 0, 0>>,
    <<0, 0, 0, 0, 0, 0, 0, 0, 0>>,
    <<0, 0, 0, 0, 0, 0, 0, 0, 0>>,
    <<0, 0, 0, 0, 0, 0, 0, 0, 0>>,
    <<0, 0, 0, 0, 0, 0, 0, 0, 0>>,
    <<0, 0, 0, 0, 0, 0, 0, 0, 0>>,
    <<0, 0, 0, 0, 0, 0, 0, 0, 1>> >>

example3 == <<
    <<5, 3, 0, 0, 7, 0, 0, 0, 0>>,
    <<6, 0, 0, 1, 9, 5, 0, 0, 0>>,
    <<0, 9, 8, 0, 0, 0, 0, 6, 0>>,
    <<8, 0, 0, 0, 6, 0, 0, 0, 3>>,
    <<4, 0, 0, 8, 0, 3, 0, 0, 1>>,
    <<7, 0, 0, 0, 2, 0, 0, 0, 6>>,
    <<0, 6, 0, 0, 0, 0, 2, 8, 0>>,
    <<0, 0, 0, 4, 1, 9, 0, 0, 5>>,
    <<0, 0, 0, 0, 8, 0, 0, 7, 9>> >>

\* The completed grid of example3, from which candidate models are derived
Solved3 == <<
    <<5, 3, 4, 6, 7, 8, 9, 1, 2>>,
    <<6, 7, 2, 1, 9, 5, 3, 4, 8>>,
    <<1, 9, 8, 3, 4, 2, 5, 6, 7>>,
    <<8, 5, 9, 7, 6, 1, 4, 2, 3>>,
    <<4, 2, 6, 8, 5, 3, 7, 9, 1>>,
    <<7, 1, 3, 9, 2, 4, 8, 5, 6>>,
    <<9, 6, 1, 5, 3, 7, 2, 8, 4>>,
    <<2, 8, 7, 4, 1, 9, 6, 3, 5>>,
    <<3, 4, 5, 2, 8, 6, 1, 7, 9>> >>

\* A grid with the given digits <<i, j, k>> and 0 elsewhere
GridWith(givens) ==
    [r \in 1..9 |-> [c \in 1..9 |->
        IF \E t \in givens : t[1] = r - 1 /\ t[2] = c - 1
        THEN (CHOOSE t \in givens : t[1] = r - 1 /\ t[2] = c - 1)[3]
        ELSE 0]]

MaxGivenDigit == 6  \* second given of a two-given grid: a digit of 5..MaxGivenDigit
MaxSwapRow == 3     \* candidate models: rows 0..MaxSwapRow are swapped
MaxSwapCol == 1     \* candidate models: cells of rows 0..2, columns 0..MaxSwapCol are swapped
MaxFlipVar == 12    \* candidate models: one literal of 1..MaxFlipVar is negated
MaxOverlay == 3     \* candidate models: digits 1..MaxOverlay are overlaid

\* Second givens put next to the given 5 at (0, 0): same row, same column,
\* same box, unrelated cell
SecondCells == {<<0, 8>>, <<8, 0>>, <<1, 1>>, <<4, 4>>, <<8, 8>>}

Grids ==
    {example, example2, example3, GridWith({})}
    \cup {GridWith({<<0, 0, 5>>, <<c[1], c[2], d>>}) :
            c \in SecondCells, d \in 5..MaxGivenDigit}

\* The model a solver prints for a completed grid: literal v or -v at place v
ModelOf(g) ==
    [v \in 1..729 |->
        LET c == variable_to_cell(v)
        IN  IF g[c[1] + 1][c[2] + 1] = c[3] + 1 THEN v ELSE -v]

Relabel(g, a, b) ==
    [r \in 1..9 |-> [c \in 1..9 |->
        IF g[r][c] = a THEN b ELSE IF g[r][c] = b THEN a ELSE g[r][c]]]

SwapRows(g, r1, r2) ==
    [r \in 1..9 |-> IF r = r1 + 1 THEN g[r2 + 1]
                    ELSE IF r = r2 + 1 THEN g[r1 + 1] ELSE g[r]]

SwapCells(g, c1, c2) ==
    [r \in 1..9 |-> [c \in 1..9 |->
        IF <<r - 1, c - 1>> = c1 THEN g[c2[1] + 1][c2[2] + 1]
        ELSE IF <<r - 1, c - 1>> = c2 THEN g[c1[1] + 1][c1[2] + 1]
        ELSE g[r][c]]]

Flip(m, v) == [m EXCEPT ![v] = -m[v]]

\* The model of g with digit b moved onto the cells that hold digit a: these
\* cells get two digits, the cells that held b get none, and every row,
\* column and box still has each digit once
Overlay(g, a, b) ==
    [v \in 1..729 |->
        LET c == variable_to_cell(v)
            here == g[c[1] + 1][c[2] + 1]
            k == c[3] + 1
        IN  IF (k = b /\ here = a) \/ (k # b /\ here = k) THEN v ELSE -v]

CandidateModels ==
    {ModelOf(Relabel(Solved3, a, b)) : a \in 1..9, b \in 1..9}
    \cup {ModelOf(SwapRows(Solved3, r1, r2)) : r1 \in 0..MaxSwapRow, r2 \in 0..MaxSwapRow}
    \cup {ModelOf(SwapCells(Solved3, c1, c2)) :
            c1 \in (0..2) \X (0..MaxSwapCol), c2 \in (0..2) \X (0..MaxSwapCol)}
    \cup {Flip(ModelOf(Solved3), v) : v \in 1..MaxFlipVar}
    \cup {Overlay(Solved3, a, b) : a \in 1..MaxOverlay, b \in 1..MaxOverlay}

---------------------------------------------------------------------------
(* TP3: SolverGateway and solve_sudoku *)

TextLine(t) == [kind |-> "text", text |-> t]
\* "v l1 l2 ... 0": lits is what lines[2][2:-2].split(" ") holds, as integers
ModelLine(m) == [kind |-> "model", lits |-> m]

Raised == [raised |-> TRUE]
Returned(satisfiable, m) == [raised |-> FALSE, satisfiable |-> satisfiable, model |-> m]

\* subprocess.run(check=True) raises when the process cannot be launched or
\* exits with a nonzero status; lines[n] raises past the end; int(x) raises
\* on a token that is no integer
exec_gophersat(out) ==
    IF ~out.launched \/ out.rc # 0 THEN Raised
    ELSE LET lines == out.lines
         IN  IF Len(lines) < 2 THEN Raised
             ELSE IF lines[2] # TextLine("s SATISFIABLE") THEN Returned(FALSE, <<>>)
             ELSE IF Len(lines) < 3 THEN Raised
             ELSE IF lines[3].kind # "model" THEN Raised
             ELSE Returned(TRUE, lines[3].lits)

\* What solve_sudoku returns after the solver call
solve_sudoku_return(r) ==
    IF r.raised THEN <<FALSE, None>>
    ELSE IF r.satisfiable THEN <<TRUE, model_to_grid(r.model)>>
    ELSE <<FALSE, None>>

\* What solve_sudoku prints after the solver call
solve_sudoku_print(r) ==
    IF r.raised THEN <<"Erreur lors de l'execution">>
    ELSE IF r.satisfiable THEN <<>>
    ELSE <<"Ce Sudoku n'a pas de solution.">>

Banner == TextLine("c solving sudoku.cnf")

IdleSudoku ==
    /\ grid = None /\ model = None /\ cnf_header = None
    /\ solver = None /\ result = None /\ printed = None

InitSudoku ==
    /\ grid \in Grids
    /\ model \in CandidateModels
    /\ cnf_header = None
    /\ solver = None
    /\ result = None
    /\ printed = <<>>

\* solve_sudoku up to the solver call: the clause base is built and written
\* (of the file only the header line is kept in the state)
solve_write ==
    /\ pc = "start"
    /\ LET clauses == generate_problem(grid)
           nb_vars == 729
       IN  cnf_header' = dimacs_header(nb_vars, Len(clauses))
    /\ printed' = Append(printed, "Execution de : gophersat sudoku.cnf")
    /\ pc' = "written"
    /\ UNCHANGED <<grid, model, solver, result, ixVars, uVars, dVars, gVars>>

\* The external solver.  It answers SATISFIABLE only with a model of the
\* file's clauses (its search is limited to the model it has at hand), and
\* may also fail to launch, exit nonzero or print something else.
run_solver ==
    /\ pc = "written"
    /\ LET sat == SatisfiesAll(TrueVars(model), generate_problem(grid))
       IN  \/ solver' = [launched |-> FALSE, rc |-> 0, lines |-> <<>>]
           \/ solver' = [launched |-> TRUE, rc |-> 1, lines |-> <<>>]
           \/ solver' = [launched |-> TRUE, rc |-> 0, lines |-> <<Banner>>]
           \/ solver' = [launched |-> TRUE, rc |-> 0,
                         lines |-> <<Banner, TextLine("s SATISFIABLE")>>]
           \/ solver' = [launched |-> TRUE, rc |-> 0,
                         lines |-> <<Banner, TextLine("s SATISFIABLE"), TextLine("v x 0")>>]
           \/ /\ sat = FALSE
              /\ solver' = [launched |-> TRUE, rc |-> 0,
                            lines |-> <<Banner, TextLine("s UNSATISFIABLE")>>]
           \/ /\ sat = TRUE
              /\ solver' = [launched |-> TRUE, rc |-> 0,
                            lines |-> <<Banner, TextLine("s SATISFIABLE"), ModelLine(model)>>]
    /\ pc' = "ran"
    /\ UNCHANGED <<grid, model, cnf_header, result, printed, ixVars, uVars, dVars, gVars>>

\* solve_sudoku from the solver call to its return
solve_return ==
    /\ pc = "ran"
    /\ LET r == exec_gophersat(solver)
       IN  /\ result' = solve_sudoku_return(r)
           /\ printed' = printed \o solve_sudoku_print(r)
    /\ pc' = "returned"
    /\ UNCHANGED <<grid, model, cnf_header, solver, ixVars, uVars, dVars, gVars>>

\* main after solve_sudoku: the single candidate path has been tried
main_report ==
    /\ pc = "returned"
    /\ LET ok == result[1]
           solution_found == ok
       IN  printed' = printed \o
               (IF solution_found THEN <<"Grille resolue">>
                ELSE <<"Erreur : Gophersat n'a pas ete trouve ou le Sudoku n'a pas de solution.">>)
    /\ pc' = "done"
    /\ UNCHANGED <<grid, model, cnf_header, solver, result, ixVars, uVars, dVars, gVars>>

NextSudoku == solve_write \/ run_solver \/ solve_return \/ main_report

InitSudokuProgram ==
    /\ pc = "start"
    /\ IdleIx /\ IdleUnique /\ IdleDimacs /\ IdleColoring
    /\ InitSudoku

SpecSudoku == InitSudokuProgram /\ [][NextSudoku]_vars

---------------------------------------------------------------------------
(* Sudoku: what a completed grid is *)

RowHasOnce(g, i, k) == Cardinality({j \in 0..8 : g[i + 1][j + 1] = k}) = 1
ColumnHasOnce(g, j, k) == Cardinality({i \in 0..8 : g[i + 1][j + 1] = k}) = 1
BoxCells(b) == {<<(b \div 3) * 3 + i, (b % 3) * 3 + j>> : i \in 0..2, j \in 0..2}
BoxHasOnce(g, b, k) == Cardinality({c \in BoxCells(b) : g[c[1] + 1][c[2] + 1] = k}) = 1

ValidCompleted(g) ==
    /\ \A i \in 0..8, j \in 0..8 : g[i + 1][j + 1] \in 1..9
    /\ \A n \in 0..8, k \in 1..9 :
          RowHasOnce(g, n, k) /\ ColumnHasOnce(g, n, k) /\ BoxHasOnce(g, n, k)

AgreesWithGivens(g, givens) ==
    \A i \in 0..8, j \in 0..8 :
        givens[i + 1][j + 1] # 0 => g[i + 1][j + 1] = givens[i + 1][j + 1]

\* The same nonzero digit twice in one row, one column or one box
HasDuplicate(g) ==
    \E k \in 1..9 :
        \/ \E i \in 0..8 : Cardinality({j \in 0..8 : g[i + 1][j + 1] = k}) > 1
        \/ \E j \in 0..8 : Cardinality({i \in 0..8 : g[i + 1][j + 1] = k}) > 1
        \/ \E b \in 0..8 : Cardinality({c \in BoxCells(b) : g[c[1] + 1][c[2] + 1] = k}) > 1

NonZeroCells(g) == Cardinality({c \in (0..8) \X (0..8) : g[c[1] + 1][c[2] + 1] # 0})

ModelSatisfiesProblem == SatisfiesAll(TrueVars(model), generate_problem(grid))

\* Both are read only once the solver has run
SolverAnswered(verdict) ==
    /\ solver.launched /\ solver.rc = 0
    /\ Len(solver.lines) >= 2
    /\ solver.lines[2] = TextLine(verdict)

\* The solver did not launch, exited nonzero, or printed something that is
\* neither verdict with its model
SolverFailed ==
    \/ ~solver.launched
    \/ solver.rc # 0
    \/ Len(solver.lines) < 2
    \/ /\ solver.lines[2] = TextLine("s SATISFIABLE")
       /\ (Len(solver.lines) < 3 \/ solver.lines[3].kind # "model")

UnsatOutput ==
    [launched |-> TRUE, rc |-> 0, lines |-> <<Banner, TextLine("s UNSATISFIABLE")>>]

---------------------------------------------------------------------------
(* Sudoku claims, under SpecSudoku *)

\* C2: a model of generate_problem(grid) decodes to a completed Sudoku (every
\* cell in 1..9, every row, column and box holds each digit exactly once),
\* solve_sudoku returns only such grids, and the model of a completed valid
\* grid that agrees with the givens satisfies every clause.
C2_ModelsAreSolutions ==
    /\ pc = "written" =>
          LET g == model_to_grid(model)
          IN  /\ ModelSatisfiesProblem => ValidCompleted(g)
              /\ (model = ModelOf(g) /\ AgreesWithGivens(g, grid) /\ ValidCompleted(g))
                    => ModelSatisfiesProblem
    /\ (pc = "returned" /\ result[1]) => ValidCompleted(result[2])

C2_Witness ==
    /\ pc = "returned"
    /\ grid = example2
    /\ SolverAnswered("s SATISFIABLE")
    /\ result[1]
    /\ result[2][9][9] = 1
    /\ ValidCompleted(result[2])

\* C3: in the grid decoded from a model of generate_problem(grid), every
\* cell that the input grid gives holds the given digit.
C3_GivensKept ==
    /\ (pc = "written" /\ ModelSatisfiesProblem)
          => AgreesWithGivens(model_to_grid(model), grid)
    /\ (pc = "returned" /\ result[1]) => AgreesWithGivens(result[2], grid)

C3_Witness ==
    /\ pc = "returned"
    /\ grid = example3
    /\ result[1]
    /\ result[2] = Solved3

\* C4 as stated: 108 * 37 clauses plus one per nonzero cell, header with 729.
C4_Original ==
    pc = "written" =>
        /\ Len(generate_problem(grid)) = 108 * 37 + NonZeroCells(grid)
        /\ cnf_header = <<"p", " ", "c", "n", "f", " ", "7", "2", "9", " ">>
                        \o str(108 * 37 + NonZeroCells(grid)) \o <<"\n">>

\* C4 amended: generate_problem(grid) returns 324 * 37 clauses (81 cell, 81
\* row-digit, 81 column-digit and 81 box-digit exactly-one groups of 37
\* clauses) plus one unit clause per nonzero cell, and solve_sudoku writes
\* the header "p cnf 729 <that count>".
C4_ClauseCount ==
    pc = "written" =>
        /\ Len(create_cell_constraints) = 81 * 37
        /\ Len(create_line_constraints) = 81 * 37
        /\ Len(create_column_constraints) = 81 * 37
        /\ Len(create_box_constraints) = 81 * 37
        /\ Len(generate_problem(grid)) = 324 * 37 + NonZeroCells(grid)
        /\ cnf_header = <<"p", " ", "c", "n", "f", " ", "7", "2", "9", " ">>
                        \o str(324 * 37 + NonZeroCells(grid)) \o <<"\n">>

C4_Witness ==
    /\ pc = "written"
    /\ grid = example
    /\ cnf_header = <<"p", " ", "c", "n", "f", " ", "7", "2", "9", " ",
                      "1", "2", "0", "1", "9", "\n">>

\* C8: the value solve_sudoku returns when the solver failed (no launch,
\* nonzero exit, malformed output) differs from the value it returns when
\* the solver answered that no model exists.
C8_UnsatDistinctFromFailure ==
    (pc = "returned" /\ SolverFailed)
        => result # solve_sudoku_return(exec_gophersat(UnsatOutput))

---------------------------------------------------------------------------
(* VariableIndexer program and claim *)

InitIndexerProgram ==
    /\ pc = "start"
    /\ InitIndexer
    /\ IdleUnique /\ IdleDimacs /\ IdleColoring /\ IdleSudoku

NextIndexer == encode_decode \/ decode_encode

SpecIndexer == InitIndexerProgram /\ [][NextIndexer]_vars

\* C1: variable_to_cell(cell_to_variable(i, j, k)) = (i, j, k) for every row
\* and column of 0..8 and digit of 1..9, and cell_to_variable applied to
\* variable_to_cell(v) gives back v for every v of 1..729.
C1_RoundTrip ==
    pc = "done" =>
        IF "cell" \in DOMAIN ix_in
        THEN ix_out.cell = ix_in.cell
        ELSE ix_out.var = ix_in.var

---------------------------------------------------------------------------
(* DimacsWriter program and claim *)

InitDimacsProgram ==
    /\ pc = "start"
    /\ InitDimacs
    /\ IdleIx /\ IdleUnique /\ IdleColoring /\ IdleSudoku

NextDimacs == call_clause_to_dimacs

SpecDimacs == InitDimacsProgram /\ [][NextDimacs]_vars

NewlineCount(text) == Cardinality({n \in 1..Len(text) : text[n] = "\n"})

HasBlankLine(text) ==
    \/ (Len(text) > 0 /\ text[1] = "\n")
    \/ \E n \in 1..(Len(text) - 1) : text[n] = "\n" /\ text[n + 1] = "\n"

\* A clause's line: its literals in order, single spaces, " 0", a newline
ExpectedClauseLine(clause) ==
    join(<<" ">>, [l \in 1..Len(clause) |-> str(clause[l])]) \o <<" ", "0", "\n">>

\* C5: for every clause base, the empty one included, clause_to_dimacs
\* returns the header line "p cnf <nb_vars> <len(clauses)>" followed by
\* exactly len(clauses) lines, the n-th being the n-th clause's literals
\* separated by single spaces and ended by " 0", a newline after every line
\* and no blank line; [[1,-2],[3]] with nb_vars 3 gives
\* "p cnf 3 2\n1 -2 0\n3 0\n".
C5_DimacsFormat ==
    pc = "done" =>
        /\ d_text = <<"p", " ", "c", "n", "f", " ">> \o str(d_nb_vars) \o <<" ">>
                    \o str(Len(d_clauses)) \o <<"\n">>
                    \o Flatten([n \in 1..Len(d_clauses) |-> ExpectedClauseLine(d_clauses[n])])
        /\ NewlineCount(d_text) = 1 + Len(d_clauses)
        /\ ~HasBlankLine(d_text)
        /\ (d_clauses = <<<<1, -2>>, <<3>>>> /\ d_nb_vars = 3) =>
              d_text = <<"p", " ", "c", "n", "f", " ", "3", " ", "2", "\n",
                         "1", " ", "-", "2", " ", "0", "\n", "3", " ", "0", "\n">>

---------------------------------------------------------------------------
(* The exactly-one primitive: program and claim *)

InitUniqueProgram ==
    /\ pc = "start"
    /\ InitUnique
    /\ IdleIx /\ IdleDimacs /\ IdleColoring /\ IdleSudoku

NextUnique == call_unique \/ caller_appends

SpecUnique == InitUniqueProgram /\ [][NextUnique]_vars

\* C10: for a list S of n >= 1 distinct positive variables, unique(S)
\* returns 1 + C(n,2) clauses, the clause listing all of S and then [-x, -y]
\* for every unordered pair of S; S is neither modified nor aliased (a later
\* append to a returned clause leaves S as it was); an assignment satisfies
\* the clauses iff exactly one variable of S is true.
C10_UniqueExactlyOne ==
    pc \in {"returned", "mutated"} =>
        LET n == Len(s_orig)
            pairs == {<<a, b>> \in (1..n) \X (1..n) : a < b}
        IN  /\ Len(u_result) = 1 + (n * (n - 1)) \div 2
            /\ heap[s_ref] = s_orig
            /\ \A r \in 1..Len(u_result) : u_result[r] # s_ref
            /\ pc = "returned" =>
                  LET cb == Deref(heap, u_result)
                  IN  /\ cb[1] = s_orig
                      /\ {cb[r] : r \in 2..Len(cb)}
                            = {<<-s_orig[p[1]], -s_orig[p[2]]>> : p \in pairs}
                      /\ SatisfiesAll(u_assign, cb)
                            <=> (Cardinality(u_assign \cap Range(s_orig)) = 1)
                      /\ Cardinality(u_assign \cap Range(s_orig)) >= 2 =>
                            \E r \in 2..Len(cb) : ~ClauseTrue(u_assign, cb[r])

C10_Witness ==
    /\ pc = "mutated"
    /\ Len(s_orig) = 3
    /\ Len(u_result) = 4
    /\ Cardinality(u_assign \cap Range(s_orig)) = 2
    /\ heap[s_ref] = s_orig
    /\ heap[u_result[1]] # s_orig

---------------------------------------------------------------------------
(* TP2: graph 3-colouring *)

MaxVertices == 2     \* explored graphs have 0..MaxVertices vertices
MaxColorFlip == 8    \* Petersen graph: colour variables 1..MaxColorFlip are flipped

couleurs == <<"R", "G", "B">>
couleurs_to_int(c) == CASE c = "R" -> 1 [] c = "G" -> 2 [] c = "B" -> 3
couleurs_int == [n \in 1..Len(couleurs) |-> couleurs_to_int(couleurs[n])]

\* list(graph.nodes) of a graph whose vertices are 0..n-1
sommets(g) == [n \in 1..g.n |-> n - 1]

\* First loop: one clause per vertex, its three colour variables
vertex_clauses(g) ==
    [n \in 1..g.n |->
        LET j == sommets(g)[n]
        IN  [i \in 1..Len(couleurs_int) |-> j * Len(couleurs) + couleurs_int[i]]]

\* the second literal built from pair[0] again
pair_clauses_same(g) ==
    Flatten([n \in 1..g.n |->
        LET j == sommets(g)[n]
            pairs == combinations2(couleurs_int)
        IN  [p \in 1..Len(pairs) |->
                <<-((j * Len(couleurs)) + pairs[p][1]),
                  -((j * Len(couleurs)) + pairs[p][1])>>]])

\* Second loop: per vertex, one clause per pair of colours
pair_clauses(g) ==
    Flatten([n \in 1..g.n |->
        LET j == sommets(g)[n]
            pairs == combinations2(couleurs_int)
        IN  [p \in 1..Len(pairs) |->
                <<-((j * Len(couleurs)) + pairs[p][1]),
                  -((j * Len(couleurs)) + pairs[p][2])>>]])

\* the colours taken from range(len(couleurs)): 0, 1, 2
edge_clauses_from_zero(g) ==
    Flatten([e \in 1..Len(g.edges) |->
        LET u == g.edges[e][1]
            v == g.edges[e][2]
        IN  [i \in 1..Len(couleurs_int) |->
                <<-((u * Len(couleurs)) + (i - 1)),
                  -((v * Len(couleurs)) + (i - 1))>>]])

\* Third loop: per edge and colour, the two ends do not both have it
edge_clauses(g) ==
    Flatten([e \in 1..Len(g.edges) |->
        LET u == g.edges[e][1]
            v == g.edges[e][2]
        IN  [i \in 1..Len(couleurs_int) |->
                <<-((u * Len(couleurs)) + couleurs_int[i]),
                  -((v * Len(couleurs)) + couleurs_int[i])>>]])

\* The lists `clause` of the three loops, in the order they are appended
coloring_clauses(g) == vertex_clauses(g) \o pair_clauses(g) \o edge_clauses(g)

\* ' '.join(map(str, clause)) + ' 0\n'
clause_line(clause) ==
    join(<<" ">>, [l \in 1..Len(clause) |-> str(clause[l])]) \o <<" ", "0", "\n">>

\* The content written to graph.cnf
generate_dimacs_cnf(g) ==
    LET variables == Len(sommets(g)) * Len(couleurs)
        c == Len(sommets(g)) * Len(couleurs) + Len(g.edges) * Len(couleurs)
             + Len(sommets(g))
        cl == coloring_clauses(g)
        clauses == [n \in 1..Len(cl) |-> clause_line(cl[n])]
    IN  <<"p", " ", "c", "n", "f", " ">> \o str(variables) \o <<" ">> \o str(c)
        \o <<"\n">> \o Flatten(clauses)

\* networkx.petersen_graph(): 10 vertices, 15 edges, in the order of G.edges
petersen_graph ==
    [n |-> 10,
     edges |-> << <<0, 1>>, <<0, 4>>, <<0, 5>>, <<1, 2>>, <<1, 6>>, <<2, 3>>,
                  <<2, 7>>, <<3, 4>>, <<3, 8>>, <<4, 9>>, <<5, 7>>, <<5, 8>>,
                  <<6, 8>>, <<6, 9>>, <<7, 9>> >>]

\* Vertex -> colour (1, 2, 3) of a proper colouring of the Petersen graph
PetersenColors == <<1, 2, 1, 2, 3, 2, 3, 3, 1, 1>>
PetersenColoring == {(v - 1) * 3 + PetersenColors[v] : v \in 1..10}

\* The graphs on vertices 0..n-1: any set of edges <<u, v>>, u < v, listed
\* in increasing order
SmallGraphs ==
    UNION {
        LET all == combinations2([x \in 1..n |-> x - 1])
        IN  {[n |-> n, edges |-> SelectSeq(all, LAMBDA e : e \in E)] :
                E \in SUBSET Range(all)}
        : n \in 0..MaxVertices}

FlipIn(S, v) == IF v \in S THEN S \ {v} ELSE S \cup {v}

InitColoring ==
    /\ \/ /\ graph \in SmallGraphs
          /\ coloring \in SUBSET (1..(graph.n * 3))
       \/ /\ graph = petersen_graph
          /\ \E a, b \in 0..MaxColorFlip :
                coloring = FlipIn(FlipIn(PetersenColoring, a), b) \ {0}
    /\ cnf_file = None

InitColoringProgram ==
    /\ pc = "start"
    /\ InitColoring
    /\ IdleIx /\ IdleUnique /\ IdleDimacs /\ IdleSudoku

\* main of TP2: generate_dimacs_cnf(graph, 3)
call_generate_dimacs_cnf ==
    /\ pc = "start"
    /\ cnf_file' = generate_dimacs_cnf(graph)
    /\ pc' = "done"
    /\ UNCHANGED <<graph, coloring, ixVars, uVars, dVars, sVars>>

NextColoring == call_generate_dimacs_cnf

SpecColoring == InitColoringProgram /\ [][NextColoring]_vars

\* The first line of a text, its newline included
FirstLine(text) ==
    SubSeq(text, 1, CHOOSE n \in 1..Len(text) :
                        text[n] = "\n" /\ \A o \in 1..(n - 1) : text[o] # "\n")

\* C6: the header of graph.cnf reports |V|*3 variables and
\* |V| + |V|*C(3,2) + |E|*3 clauses, that count is the number of clause
\* lines written after the header, and every literal written has an
\* absolute value in 1..|V|*3.
C6_HeaderCounts ==
    pc = "done" =>
        LET nv == graph.n
            ne == Len(graph.edges)
            count == nv + nv * 3 + ne * 3
        IN  /\ FirstLine(cnf_file) = <<"p", " ", "c", "n", "f", " ">> \o str(nv * 3)
                                      \o <<" ">> \o str(count) \o <<"\n">>
            /\ NewlineCount(cnf_file) - 1 = count
            /\ Len(coloring_clauses(graph)) = count
            /\ cnf_file[Len(cnf_file)] = "\n"
            /\ \A n \in 1..Len(coloring_clauses(graph)) :
                  \A l \in 1..Len(coloring_clauses(graph)[n]) :
                      LET lit == coloring_clauses(graph)[n][l]
                      IN  (IF lit < 0 THEN -lit ELSE lit) \in 1..(nv * 3)

C6_Witness ==
    /\ pc = "done"
    /\ graph = petersen_graph
    /\ FirstLine(cnf_file) = <<"p", " ", "c", "n", "f", " ", "3", "0", " ", "8", "5", "\n">>
    /\ NewlineCount(cnf_file) = 86

\* Exactly one colour per vertex, no edge with the same colour at both ends
ProperColoring(g, trueVars) ==
    /\ \A j \in 0..(g.n - 1) : Cardinality({i \in 1..3 : (j * 3 + i) \in trueVars}) = 1
    /\ \A e \in 1..Len(g.edges) : \A i \in 1..3 :
          ~((g.edges[e][1] * 3 + i) \in trueVars /\ (g.edges[e][2] * 3 + i) \in trueVars)

\* C7: an assignment over the variables 1..3n satisfies every clause written
\* by generate_dimacs_cnf iff every vertex has exactly one of its colour
\* variables true and no edge has the same colour true at both ends; the
\* Petersen instance has such an assignment.
C7_ColoringModels ==
    pc = "done" =>
        /\ SatisfiesAll(coloring, coloring_clauses(graph))
              <=> ProperColoring(graph, coloring)
        /\ graph = petersen_graph =>
              SatisfiesAll(PetersenColoring, coloring_clauses(graph))

C7_Witness ==
    /\ pc = "done"
    /\ graph = petersen_graph
    /\ coloring = PetersenColoring
    /\ SatisfiesAll(coloring, coloring_clauses(graph))
    /\ ProperColoring(graph, coloring)

====
